---------------------------- MODULE Spec2Model ----------------------------
(***************************************************************************)
(* A model of the atmospheric-scattering renderer (src/main.go, the        *)
(* physically-lit version at lines 227-590, with the Vector3 type of       *)
(* src/unnamed/part_000 lines 287-336).                                    *)
(*                                                                         *)
(* Numbers.  The program computes in float64; the model computes in        *)
(* fixed point on 32-bit integers:                                         *)
(*   - lengths (positions, radii, ray parameters t, step sizes dx and      *)
(*     optical lengths) are whole kilometres, so 6371000 m is 6371;        *)
(*   - every dimensionless number (direction components, cosines,          *)
(*     densities, exponentials, colour channels) is an integer count of    *)
(*     1/Q, so 1.0 is Q;                                                   *)
(*   - every float64 operation that rounds is a rounding division RDiv,    *)
(*     math.Sqrt is the correctly rounded integer square root, math.Exp    *)
(*     is a fixed-point exponential and math.Atan2 is accurate to the      *)
(*     octant only.                                                        *)
(* Rounding is therefore far coarser than in the program (1 km and 1/Q     *)
(* instead of 2^-52 relative), which widens the set of rays on which       *)
(* rounding decides a branch but does not create a branch the float64      *)
(* code cannot take.                                                       *)
(*                                                                         *)
(* The image is rendered on the window XMin..XMax x YMin..YMax of the      *)
(* 640 x 480 pixel grid: pixels are independent, and the window is         *)
(* placed on the upper right limb of the planet, where all shading paths   *)
(* occur.                                                                  *)
(*                                                                         *)
(* Specifications.  Spec is the run of main; FairSpec is Spec run to       *)
(* completion; SpecWorkers is the pixel loop with its body run by several  *)
(* workers, statement by statement.  SpecIntersect, SpecIntegrate,         *)
(* SpecPack, SpecAttenuation, SpecInScatter and SpecSample are one call of *)
(* Sphere.Intersect, of the two integrators, of Color.Pack, of the         *)
(* attenuation of sunlight, of inScatterFn and of sampleTexture on         *)
(* arguments drawn from small sets.                                        *)
(***************************************************************************)
EXTENDS Integers, Sequences, FiniteSets, TLC

VARIABLES pc, texFile, tex, x, y, img, writes, px, outFile, ofHandle,
          exitCode, msg, arg, res, debugIntersect, wk

vars == <<pc, texFile, tex, x, y, img, writes, px, outFile, ofHandle,
          exitCode, msg, arg, res, debugIntersect, wk>>

-----------------------------------------------------------------------------
(* Program constants (lengths in km) *)

ImageWidth == 640
ImageHeight == 480
EarthRadius == 6371
EarthAtmosphereHeight == 100
CameraDistance == 40000
DirZ == 5
SunlightIntensity == 3
InScatterSamples == 50
SunSamples == 5
NoHitT == 1000000

(* 1e-5 m is below the model's length resolution: on whole kilometres    *)
(* "t > 1e-5" is "t > 0".                                                 *)
Eps == 0

-----------------------------------------------------------------------------
(* Bounds of the model *)

Q == 7000
XMin == 492
XMax == 497
YMin == 152
YMax == 155
TexSize == 2

-----------------------------------------------------------------------------
(* float64 arithmetic on the fixed-point grid *)

\* a / b rounded to the nearest grid value (b > 0)
RDiv(a, b) == (a + (b \div 2)) \div b

RECURSIVE SqrtSearch(_, _, _)
SqrtSearch(v, lo, hi) ==
    IF lo >= hi THEN lo
    ELSE LET mid == (lo + hi + 1) \div 2
         IN  IF mid * mid <= v THEN SqrtSearch(v, mid, hi)
             ELSE SqrtSearch(v, lo, mid - 1)

\* math.Sqrt of a non-negative integer, correctly rounded
Sqrt(v) ==
    LET s == SqrtSearch(v, 0, 46340)
    IN  IF v - s * s > s THEN s + 1 ELSE s

Max(a, b) == IF a >= b THEN a ELSE b
Min(a, b) == IF a <= b THEN a ELSE b

clamp(v, lo, hi) == Max(Min(v, hi), lo)

-----------------------------------------------------------------------------
(* Vector3: a triple.  The last parameter s of an operation that          *)
(* multiplies is the scale of the factor that is divided out again:       *)
(* 1 for a length, Q for a dimensionless number.                          *)

Add(a, b) == <<a[1] + b[1], a[2] + b[2], a[3] + b[3]>>

Sub(a, b) == <<a[1] - b[1], a[2] - b[2], a[3] - b[3]>>

Neg(a) == <<-a[1], -a[2], -a[3]>>

Multiply(v, f, s) == <<RDiv(v[1] * f, s), RDiv(v[2] * f, s), RDiv(v[3] * f, s)>>

LengthSquared(v, s) == RDiv(v[1] * v[1], s) + RDiv(v[2] * v[2], s) + RDiv(v[3] * v[3], s)

Length(v, s) == Sqrt(LengthSquared(v, s) * s)

\* v.Multiply(1 / f): the quotient v / f as a dimensionless vector
Divide(v, f) == <<RDiv(v[1] * Q, f), RDiv(v[2] * Q, f), RDiv(v[3] * Q, f)>>

Normalize(v, s) == Divide(v, Length(v, s))

Dot(a, b, s) == RDiv(a[1] * b[1] + a[2] * b[2] + a[3] * b[3], s)

-----------------------------------------------------------------------------
(* Matrix: the transform of a sphere.  Its file is not among the sources; *)
(* it is modelled as a 3 x 3 rotation with entries on the 1/Q grid, whose *)
(* inverse is its transpose.                                              *)

Identity == <<<<Q, 0, 0>>, <<0, Q, 0>>, <<0, 0, Q>>>>

\* cos(0.5) and sin(0.5) on the 1/Q grid
CosHalf == RDiv(87758 * Q, 100000)
SinHalf == RDiv(47943 * Q, 100000)

\* Rotate(Vector3{0, 1, 0}, -0.5)
RotateYMinusHalf == <<<<CosHalf, 0, -SinHalf>>, <<0, Q, 0>>, <<SinHalf, 0, CosHalf>>>>

Inverse(m) == <<<<m[1][1], m[2][1], m[3][1]>>,
                <<m[1][2], m[2][2], m[3][2]>>,
                <<m[1][3], m[2][3], m[3][3]>>>>

MulPosition(m, p) == <<Dot(m[1], p, Q), Dot(m[2], p, Q), Dot(m[3], p, Q)>>

MulDirection(m, d) == <<Dot(m[1], d, Q), Dot(m[2], d, Q), Dot(m[3], d, Q)>>

Ray(o, d) == [Origin |-> o, Direction |-> d]

MulRay(m, r) == Ray(MulPosition(m, r.Origin), MulDirection(m, r.Direction))

-----------------------------------------------------------------------------
(* Hit and Sphere *)

\* Hit.Shape is <<>> for the nil interface and <<s>> for the sphere s
NoHit == [Shape |-> <<>>, T |-> NoHitT]

Sphere(o, r, m) == [Origin |-> o, Radius |-> r, Transform |-> m]

\* the quadratic of Sphere.Intersect in the sphere's local space
IntersectB(s, r) ==
    LET or == MulRay(Inverse(s.Transform), r)
    IN  Dot(Sub(or.Origin, s.Origin), or.Direction, Q)

IntersectC(s, r) ==
    LET or == MulRay(Inverse(s.Transform), r)
        to == Sub(or.Origin, s.Origin)
    IN  Dot(to, to, 1) - s.Radius * s.Radius

\* Variant: Sphere.Intersect without the epsilon tests, the near root whenever
\* the discriminant is positive
IntersectNearRoot(s, r) ==
    LET b == IntersectB(s, r)
        c == IntersectC(s, r)
        d == b * b - c
    IN  IF d > 0 THEN [Shape |-> <<s>>, T |-> (-b) - Sqrt(d)] ELSE NoHit

Intersect(s, r) ==
    LET b == IntersectB(s, r)
        c == IntersectC(s, r)
        d == b * b - c
    IN  IF d > 0
        THEN LET sd == Sqrt(d)
                 t1 == (-b) - sd
                 t2 == (-b) + sd
             IN  IF t1 > Eps THEN [Shape |-> <<s>>, T |-> t1]
                 ELSE IF t2 > Eps THEN [Shape |-> <<s>>, T |-> t2]
                 ELSE NoHit
        ELSE NoHit

nextFloatUp(v) == v + 1

-----------------------------------------------------------------------------
(* math.Exp and math.Atan2 on the fixed-point grid *)

Ln2 == RDiv(69315 * Q, 100000)

RECURSIVE Pow2(_)
Pow2(k) == IF k = 0 THEN 1 ELSE 2 * Pow2(k - 1)

\* e^(-v / Q) * Q for v >= 0: e^(-v/Q) = 2^(-k) * e^(-r/Q), v = k * Ln2 + r,
\* with the cubic Taylor polynomial for the last factor
ExpNeg(v) ==
    LET k == v \div Ln2
        r == v % Ln2
        r2 == RDiv(r * r, Q)
        r3 == RDiv(r2 * r, Q)
        frac == ((Q - r) + RDiv(r2, 2)) - RDiv(r3, 6)
    IN  IF k > 30 THEN 0 ELSE RDiv(frac, Pow2(k))

\* math.Exp(v / Q) * Q
Exp(v) == IF v <= 0 THEN ExpNeg(-v) ELSE RDiv(Q * Q, Max(ExpNeg(v), 1))

\* math.Atan2(b, a) as a count of pi/4, exact on the axes and the middle of
\* the quadrant elsewhere
Atan2(b, a) ==
    IF b = 0 THEN (IF a >= 0 THEN 0 ELSE 4)
    ELSE IF a = 0 THEN (IF b > 0 THEN 2 ELSE -2)
    ELSE IF b > 0 THEN (IF a > 0 THEN 1 ELSE 3)
    ELSE (IF a > 0 THEN -1 ELSE -3)

-----------------------------------------------------------------------------
(* Color *)

Color(r, g, b, a) == [R |-> r, G |-> g, B |-> b, A |-> a]

AddRGB(a, b) == Color(a.R + b.R, a.G + b.G, a.B + b.B, a.A)

MultiplyRGB(c, f) == Color(RDiv(c.R * f, Q), RDiv(c.G * f, Q), RDiv(c.B * f, Q), c.A)

\* Variant: the uint8 conversion without the clamp, which wraps modulo 256
PackChannelWrap(c) == ((c * 255) \div Q) % 256

\* uint8(clamp(c * 255, 0, 255)): the conversion to uint8 drops the fraction
PackChannel(c) == clamp(c * 255, 0, 255 * Q) \div Q

Pack(c) == <<PackChannel(c.R), PackChannel(c.G), PackChannel(c.B), PackChannel(c.A)>>

\* float64(r) / 65536 is exact in float64; on the grid the quotient is
\* rounded down, so that a quotient below 1 stays below 1
NewColorFromRGBA(r, g, b, a) ==
    Color((r * Q) \div 65536, (g * Q) \div 65536, (b * Q) \div 65536, (a * Q) \div 65536)

-----------------------------------------------------------------------------
(* Sphere.UV, Sphere.Normal, sampleTexture *)

UV(s, wp) ==
    LET p0 == MulPosition(Inverse(s.Transform), wp)
        p == Sub(p0, s.Origin)
        u == Atan2(p[3], p[1])
        v == Atan2(p[2], Length(<<p[1], 0, p[3]>>, 1))
    IN  <<RDiv((u + 4) * Q, 8), RDiv((4 - (v + 2)) * Q, 4), 0>>

Normal(s, wp) ==
    LET p0 == MulPosition(Inverse(s.Transform), wp)
        p == Sub(p0, s.Origin)
    IN  Normalize(p, 1)

\* img.At(x, y).RGBA(): a point outside the bounds reads as the zero colour
At(t, i, j) ==
    IF i \in 0..(TexSize - 1) /\ j \in 0..(TexSize - 1) THEN t[<<i, j>>] ELSE <<0, 0, 0, 0>>

TexelX(u) == (clamp(u, 0, Q) * TexSize) \div Q

TexelY(v) == (clamp(v, 0, Q) * TexSize) \div Q

sampleTexture(t, u, v) ==
    LET c == At(t, TexelX(u), TexelY(v))
    IN  NewColorFromRGBA(c[1], c[2], c[3], c[4])

-----------------------------------------------------------------------------
(* The scene of main *)

SunlightDir == Normalize(<<3 * Q, (-5) * Q, Q>>, Q)

\* Variant: the coefficients of red and blue exchanged
RayleighExtinctionReversed ==
    Color(RDiv(24380 * Q, 1000000), RDiv(11757 * Q, 1000000), RDiv(6953 * Q, 1000000), 0)

\* 6.95265e-06, 1.17572e-05 and 2.43797e-05 per metre, as 1/Q per km
RayleighExtinction ==
    Color(RDiv(6953 * Q, 1000000), RDiv(11757 * Q, 1000000), RDiv(24380 * Q, 1000000), 0)

\* 0.25
RayleighDensityScale == Q \div 4

\* fudge := 1e-5 per metre of path, which is 1e-2 per km
Fudge == Q \div 100

\* 3 / (16 * math.Pi)
PhaseNorm == RDiv(59683 * Q, 1000000)

so == Sphere(<<0, 0, 0>>, EarthRadius + EarthAtmosphereHeight, Identity)

si == Sphere(<<0, 0, 0>>, EarthRadius, RotateYMinusHalf)

\* the ray r of pixel (i, j)
CameraRay(i, j) ==
    LET dirX == RDiv(RDiv((i - (ImageWidth \div 2)) * Q, ImageWidth \div 2)
                     * RDiv(ImageWidth * Q, ImageHeight), Q)
        dirY == RDiv(((ImageHeight \div 2) - j) * Q, ImageHeight \div 2)
        dirZ == DirZ * Q
    IN  Ray(<<0, 0, -CameraDistance>>, Normalize(<<dirX, dirY, dirZ>>, Q))

\* the continuation ray ri that starts just past the outer hit ho
ContinuationRay(r, ho) ==
    Ray(Add(Multiply(r.Direction, nextFloatUp(ho.T), Q), r.Origin), r.Direction)

\* optLengthFn(ray)(t, _)
optLengthFn(ray, t) ==
    LET p == Add(Multiply(ray.Direction, t, Q), ray.Origin)
        h == RDiv((Length(Sub(p, si.Origin), 1) - si.Radius) * Q, so.Radius - si.Radius)
    IN  Exp(RDiv((-h) * Q, RayleighDensityScale))

-----------------------------------------------------------------------------
(* The numerical integrators.  A function value is the record of its name  *)
(* and of the variables it closes over.  An integrator returns its value   *)
(* together with the sum it accumulated and the calls <<x, dx>> it made to *)
(* fn, in order.  The steps of a computation are operators of their own,   *)
(* so that every intermediate value is computed once.                      *)

\* the integrands of the integrators called on their own: a constant, the
\* step, a line and a parabola
TestFn(k, t, dx) ==
    CASE k = 1 -> 3
      [] k = 2 -> dx
      [] k = 3 -> 2 * t + 1
      [] k = 4 -> t * t - dx

\* fn(x, dx) for a func(t, dx float64) float64
Call(fn, t, dx) ==
    IF fn.name = "optLengthFn" THEN optLengthFn(fn.ray, t)
    ELSE TestFn(fn.k, t, dx)

\* Variant: the step of the superseded integrator, dx := (b - a) / float64(n)
StepSizeOverN(a, b, n) == RDiv(b - a, n)

\* dx := (b - a) / float64(n-1)
StepSize(a, b, n) == RDiv(b - a, n - 1)

\* (area * dx) * 0.5
ScaleArea(area, dx) == RDiv(area * dx, 2)

\* Variant: the final scaling without the step, area.Multiply(0.5)
ScaleAreaVNoStep(area, dx) == Multiply(area, 1, 2)

\* area.Multiply(dx * 0.5)
ScaleAreaV(area, dx) == Multiply(area, dx, 2)

\* the loop variables i, x, prevfn, area after the iteration that evaluated
\* newfn = fn(newx, dx)
numIntegrateStep(st, dx, newx, newfn) ==
    [i |-> st.i + 1, x |-> newx, prevfn |-> newfn,
     area |-> st.area + (st.prevfn + newfn),
     calls |-> Append(st.calls, <<newx, dx>>)]

\* for i := 1; i < n; i++ { ... }
RECURSIVE numIntegrateLoop(_, _, _, _)
numIntegrateLoop(fn, dx, n, st) ==
    IF st.i < n
    THEN numIntegrateLoop(fn, dx, n,
             numIntegrateStep(st, dx, st.x + dx, Call(fn, st.x + dx, dx)))
    ELSE st

numIntegrateReturn(st, dx) ==
    [value |-> ScaleArea(st.area, dx), area |-> st.area, calls |-> st.calls]

numIntegrateFrom(fn, a, dx, n) ==
    numIntegrateReturn(
        numIntegrateLoop(fn, dx, n,
            [i |-> 1, x |-> a, prevfn |-> Call(fn, a, dx), area |-> 0,
             calls |-> <<<<a, dx>>>>]),
        dx)

numIntegrate(fn, a, b, n) == numIntegrateFrom(fn, a, StepSize(a, b, n), n)

-----------------------------------------------------------------------------
(* inScatterFn, the integrand of the in-scatter integral *)

\* rshd and rs: the ray from the sample point at t on ri towards the sun
SunRay(ri, t) == Ray(Add(Multiply(ri.Direction, t, Q), ri.Origin), Neg(SunlightDir))

\* math.Exp(-RayleighExtinction.k * sunOptLength)
Attenuation(k, sunOptLength) == Exp(-RDiv(k * sunOptLength, Q))

\* SunlightIntensity * math.Exp(-RayleighExtinction.k * sunOptLength) * fudge
SunChannel(k, sunOptLength) ==
    RDiv(SunlightIntensity * Attenuation(k, sunOptLength) * Fudge, Q)

sunColor(sunOptLength) ==
    <<SunChannel(RayleighExtinction.R, sunOptLength),
      SunChannel(RayleighExtinction.G, sunOptLength),
      SunChannel(RayleighExtinction.B, sunOptLength)>>

scatPhase(cosT) == RDiv(PhaseNorm * (RDiv(cosT * cosT, Q) + Q), Q)

\* the extinction of contrib over the step dx
Extinguish(contrib, dx) ==
    <<RDiv(contrib[1] * Exp(-(RayleighExtinction.R * dx)), Q),
      RDiv(contrib[2] * Exp(-(RayleighExtinction.G * dx)), Q),
      RDiv(contrib[3] * Exp(-(RayleighExtinction.B * dx)), Q)>>

\* What a call of inScatterFn did: the result rshdHit of the shadow test, the
\* result rsHit of the test of the outer sphere and the sunward optical
\* length (each <<>> when the call did not compute it), and the value
\* returned.

\* the sunlit sample: from sunOptLength := numIntegrate(...) to the return
inScatterLit(r, rsHit, sunOptLength, dx) ==
    [rshdHit |-> NoHit, rsHit |-> <<rsHit>>, sunOptLength |-> <<sunOptLength>>,
     value |-> Extinguish(Multiply(sunColor(sunOptLength),
                                   scatPhase(Dot(r.Direction, SunlightDir, Q)), Q),
                          dx)]

\* the branch on rsHit := so.Intersect(rs)
inScatterSun(r, rs, rsHit, dx) ==
    IF rsHit # NoHit
    THEN inScatterLit(r, rsHit,
                      numIntegrate([name |-> "optLengthFn", ray |-> rs],
                                   0, rsHit.T, SunSamples).value,
                      dx)
    ELSE [rshdHit |-> NoHit, rsHit |-> <<rsHit>>, sunOptLength |-> <<>>,
          value |-> <<0, 0, 0>>]

\* Variant: no shadow test, every sample goes on to the outer sphere
inScatterNoShadow(r, rshd, rshdHit, dx) ==
    inScatterSun(r, rshd, Intersect(so, rshd), dx)

\* the branch on rshdHit := si.Intersect(rshd)
inScatterShadow(r, rshd, rshdHit, dx) ==
    IF rshdHit # NoHit
    THEN [rshdHit |-> rshdHit, rsHit |-> <<>>, sunOptLength |-> <<>>,
          value |-> <<0, 0, 0>>]
    ELSE inScatterSun(r, rshd, Intersect(so, rshd), dx)

inScatterAt(r, rshd, dx) == inScatterShadow(r, rshd, Intersect(si, rshd), dx)

inScatterFn(r, ri, t, dx) == inScatterAt(r, SunRay(ri, t), dx).value

\* the branch of inScatterFn the sample at t on ri takes
inScatterBranchAt(rshd) ==
    IF Intersect(si, rshd) # NoHit THEN "shadow"
    ELSE IF Intersect(so, rshd) # NoHit THEN "lit"
    ELSE "sunmiss"

inScatterBranch(ri, t) == inScatterBranchAt(SunRay(ri, t))

TestFnV(k, t, dx) == <<TestFn(k, t, dx), t, dx>>

\* fn(x, dx) for a func(t, dx float64) Vector3
CallV(fn, t, dx) ==
    IF fn.name = "inScatterFn" THEN inScatterFn(fn.r, fn.ri, t, dx)
    ELSE TestFnV(fn.k, t, dx)

numIntegrateVStep(st, dx, newx, newfn) ==
    [i |-> st.i + 1, x |-> newx, prevfn |-> newfn,
     area |-> Add(st.area, Add(st.prevfn, newfn)),
     calls |-> Append(st.calls, <<newx, dx>>)]

RECURSIVE numIntegrateVLoop(_, _, _, _)
numIntegrateVLoop(fn, dx, n, st) ==
    IF st.i < n
    THEN numIntegrateVLoop(fn, dx, n,
             numIntegrateVStep(st, dx, st.x + dx, CallV(fn, st.x + dx, dx)))
    ELSE st

numIntegrateVReturn(st, dx) ==
    [value |-> ScaleAreaV(st.area, dx), area |-> st.area, calls |-> st.calls]

numIntegrateVFrom(fn, a, dx, n) ==
    numIntegrateVReturn(
        numIntegrateVLoop(fn, dx, n,
            [i |-> 1, x |-> a, prevfn |-> CallV(fn, a, dx), area |-> <<0, 0, 0>>,
             calls |-> <<<<a, dx>>>>]),
        dx)

numIntegrateV(fn, a, b, n) == numIntegrateVFrom(fn, a, StepSize(a, b, n), n)

-----------------------------------------------------------------------------
(* The body of the pixel loop *)

\* Variant: the pixel colour starts as the zero value Color{}
BackgroundColorZero == Color(0, 0, 0, 0)

\* c := Color{0, 0, 0, 1}
BackgroundColor == Color(0, 0, 0, Q)

\* Variant: the outer sphere is tested before the planet
OpticalEndOuterFirst(hi, ho2) ==
    IF ho2 # NoHit THEN ho2.T
    ELSE IF hi # NoHit THEN hi.T
    ELSE 0

\* var olE float64, and its assignments in the two branches on hi
OpticalEnd(hi, ho2) ==
    IF hi # NoHit THEN hi.T
    ELSE IF ho2 # NoHit THEN ho2.T
    ELSE 0

\* cp := ri.Direction.Multiply(hi.T).Add(ri.Origin)
ContactPoint(ri, hi) == Add(Multiply(ri.Direction, hi.T, Q), ri.Origin)

\* l := math.Max(0, -n.Dot(SunlightDir)) * SunlightIntensity, n the normal at cp
SunAmount(cp) ==
    Max(0, -Dot(MulDirection(si.Transform, Normal(si, cp)), SunlightDir, Q))
    * SunlightIntensity

\* c = sampleTexture(tex, uv.X, uv.Y); c = c.MultiplyRGB(l)
PlanetColor(t, uv, cp) == MultiplyRGB(sampleTexture(t, uv[1], uv[2]), SunAmount(cp))

\* c = c.AddRGB(inScatterCol)
FinalColor(c, inScatter) ==
    AddRGB(c, Color(inScatter[1], inScatter[2], inScatter[3], Q))

\* what the body did for a pixel whose camera ray hit the outer sphere, and
\* the colour c it wrote
ShadedPixel(i, j, ho, ri, hi, ho2, olE, uv, integ, c) ==
    [path |-> IF hi # NoHit THEN "planet"
              ELSE IF ho2 # NoHit THEN "atmosphere" ELSE "graze",
     i |-> i,
     j |-> j,
     ho |-> ho,
     ri |-> <<ri>>,
     hi |-> <<hi>>,
     ho2 |-> IF hi # NoHit THEN <<>> ELSE <<ho2>>,
     olE |-> olE,
     texSamples |-> IF hi # NoHit THEN <<uv>> ELSE <<>>,
     integ |-> <<[a |-> 0, b |-> olE, n |-> InScatterSamples,
                  calls |-> Len(integ.calls),
                  area |-> integ.area, value |-> integ.value]>>,
     c |-> c,
     packed |-> Pack(c)]

\* the pixel whose camera ray missed the outer sphere
SkyPixel(i, j, ho, c) ==
    [path |-> "sky",
     i |-> i,
     j |-> j,
     ho |-> ho,
     ri |-> <<>>,
     hi |-> <<>>,
     ho2 |-> <<>>,
     olE |-> 0,
     texSamples |-> <<>>,
     integ |-> <<>>,
     c |-> c,
     packed |-> Pack(c)]

\* from inScatter := numIntegrateV(inScatterFn, 0, olE, 50) to the end of
\* the body; c is the colour before the in-scatter term is added
ShadeInScatter(i, j, ho, ri, hi, ho2, olE, uv, c, integ) ==
    ShadedPixel(i, j, ho, ri, hi, ho2, olE, uv, integ, FinalColor(c, integ.value))

\* the two branches on hi := si.Intersect(ri); ho2 := so.Intersect(ri) is
\* evaluated in the second only
ShadeHit(i, j, t, r, ho, ri, hi, ho2, olE, uv) ==
    ShadeInScatter(i, j, ho, ri, hi, ho2, olE, uv,
        IF hi # NoHit THEN PlanetColor(t, uv, ContactPoint(ri, hi))
        ELSE BackgroundColor,
        numIntegrateV([name |-> "inScatterFn", r |-> r, ri |-> ri],
                      0, olE, InScatterSamples))

ShadeContinuation(i, j, t, r, ho, ri, hi, ho2) ==
    ShadeHit(i, j, t, r, ho, ri, hi, ho2, OpticalEnd(hi, ho2),
             UV(si, ContactPoint(ri, hi)))

\* the branch on ho := so.Intersect(r)
ShadeRay(i, j, t, r, ho) ==
    IF ho # NoHit
    THEN ShadeContinuation(i, j, t, r, ho, ContinuationRay(r, ho),
                           Intersect(si, ContinuationRay(r, ho)),
                           Intersect(so, ContinuationRay(r, ho)))
    ELSE SkyPixel(i, j, ho, BackgroundColor)

\* The body of the pixel loop for pixel (i, j) and texture t: the colour
\* written to the pixel sink, with what the body did on the way.
ShadePixel(i, j, t) == ShadeRay(i, j, t, CameraRay(i, j), Intersect(so, CameraRay(i, j)))

-----------------------------------------------------------------------------
(* The program main as a state machine *)

Pixels == (XMin..XMax) \X (YMin..YMax)

Texels == (0..(TexSize - 1)) \X (0..(TexSize - 1))

\* the textures png.Decode may return: 16-bit alpha-premultiplied texels
Textures ==
    { [p \in Texels |-> <<65535, 65535, 65535, 65535>>],
      [p \in Texels |-> IF p[1] = p[2] THEN <<65535, 32768, 0, 65535>>
                        ELSE <<0, 16384, 65535, 65535>>],
      [p \in Texels |-> <<16384, 16384, 16384, 32768>>] }

NoPixel == [path |-> "none", i |-> -1, j |-> -1, ho |-> NoHit, ri |-> <<>>, hi |-> <<>>, ho2 |-> <<>>,
            olE |-> 0, texSamples |-> <<>>, integ |-> <<>>,
            c |-> Color(0, 0, 0, 0), packed |-> <<0, 0, 0, 0>>]

\* image.NewRGBA: every pixel transparent black
NewRGBA == [p \in Pixels |-> <<0, 0, 0, 0>>]

Init ==
    /\ pc = "open"
    /\ texFile = "unopened"
    /\ tex = <<>>
    /\ x = XMin
    /\ y = YMin
    /\ img = NewRGBA
    /\ writes = [p \in Pixels |-> 0]
    /\ px = NoPixel
    /\ outFile \in {"absent", "old"}
    /\ ofHandle = "none"
    /\ exitCode = -1
    /\ debugIntersect = FALSE
    /\ wk = <<>>
    /\ msg = "none"
    /\ arg = <<>>
    /\ res = <<>>

\* os.Open("earth.png") fails: report, os.Exit(1)
OpenFail ==
    /\ pc = "open"
    /\ msg' = "err reading 'earth.png'"
    /\ exitCode' = 1
    /\ pc' = "exited"
    /\ UNCHANGED <<texFile, tex, x, y, img, writes, px, outFile, ofHandle, arg, res,
                   debugIntersect, wk>>

OpenOk ==
    /\ pc = "open"
    /\ texFile' = "open"
    /\ pc' = "decode"
    /\ UNCHANGED <<tex, x, y, img, writes, px, outFile, ofHandle, exitCode, msg, arg, res,
                   debugIntersect, wk>>

\* Variant: png.Decode(f) fails and the texture file is left open
DecodeFailLeak ==
    /\ pc = "decode"
    /\ msg' = "err reading 'earth.png'"
    /\ exitCode' = 1
    /\ pc' = "exited"
    /\ UNCHANGED <<texFile, tex, x, y, img, writes, px, outFile, ofHandle, arg, res,
                   debugIntersect, wk>>

\* png.Decode(f) fails: report, f.Close(), os.Exit(1)
DecodeFail ==
    /\ pc = "decode"
    /\ msg' = "err reading 'earth.png'"
    /\ texFile' = "closed"
    /\ exitCode' = 1
    /\ pc' = "exited"
    /\ UNCHANGED <<tex, x, y, img, writes, px, outFile, ofHandle, arg, res, debugIntersect, wk>>

\* png.Decode(f) succeeds: f.Close(), img := image.NewRGBA(...), enter the loop
DecodeOk ==
    /\ pc = "decode"
    /\ \E t \in Textures : tex' = <<t>>
    /\ texFile' = "closed"
    /\ img' = NewRGBA
    /\ x' = XMin
    /\ y' = YMin
    /\ pc' = "render"
    /\ UNCHANGED <<writes, px, outFile, ofHandle, exitCode, msg, arg, res, debugIntersect, wk>>

\* the loop counters and the position in main after the iteration for (x, y)
LoopNext ==
    IF x < XMax THEN <<x + 1, y, "render">>
    ELSE IF y < YMax THEN <<XMin, y + 1, "render">>
    ELSE <<XMax + 1, YMax + 1, "create">>

\* Variant: the inner loop runs while x < ImageWidth - 1, so the last column of
\* every row is skipped
RenderPixelSkipsLastColumn ==
    /\ pc = "render"
    /\ px' = ShadePixel(x, y, tex[1])
    /\ img' = [img EXCEPT ![<<x, y>>] = px'.packed]
    /\ writes' = [writes EXCEPT ![<<x, y>>] = @ + 1]
    /\ IF x < XMax - 1
       THEN x' = x + 1 /\ y' = y /\ pc' = "render"
       ELSE IF y < YMax
            THEN x' = XMin /\ y' = y + 1 /\ pc' = "render"
            ELSE x' = XMax + 1 /\ y' = YMax + 1 /\ pc' = "create"
    /\ debugIntersect' = FALSE
    /\ UNCHANGED <<texFile, tex, outFile, ofHandle, exitCode, msg, arg, res, wk>>

\* one iteration of the pixel loop: set and clear debugIntersect, shade pixel
\* (x, y), img.Set(x, y, c.Pack()), advance x and y; after the last pixel
\* control reaches os.Create
RenderPixel ==
    /\ pc = "render"
    /\ px' = ShadePixel(x, y, tex[1])
    /\ img' = [img EXCEPT ![<<x, y>>] = px'.packed]
    /\ writes' = [writes EXCEPT ![<<x, y>>] = @ + 1]
    /\ x' = LoopNext[1]
    /\ y' = LoopNext[2]
    /\ pc' = LoopNext[3]
    /\ debugIntersect' = FALSE
    /\ UNCHANGED <<texFile, tex, outFile, ofHandle, exitCode, msg, arg, res, wk>>

\* os.Create("./out.png") fails: report, return
CreateFail ==
    /\ pc = "create"
    /\ msg' = "Could not create output file"
    /\ exitCode' = 0
    /\ pc' = "exited"
    /\ UNCHANGED <<texFile, tex, x, y, img, writes, px, outFile, ofHandle, arg, res,
                   debugIntersect, wk>>

\* os.Create succeeds: the file exists and is empty, the handle is open
CreateOk ==
    /\ pc = "create"
    /\ outFile' = "empty"
    /\ ofHandle' = "open"
    /\ pc' = "encode"
    /\ UNCHANGED <<texFile, tex, x, y, img, writes, px, exitCode, msg, arg, res, debugIntersect, wk>>

\* png.Encode fails after writing nothing or a part of the image: report,
\* return, and the deferred of.Close() runs
EncodeFail ==
    /\ pc = "encode"
    /\ \E o \in {"empty", "partial"} : outFile' = o
    /\ msg' = "Encode PNG failed"
    /\ ofHandle' = "closed"
    /\ exitCode' = 0
    /\ pc' = "exited"
    /\ UNCHANGED <<texFile, tex, x, y, img, writes, px, arg, res, debugIntersect, wk>>

\* png.Encode succeeds, main returns and the deferred of.Close() runs
EncodeOk ==
    /\ pc = "encode"
    /\ outFile' = "complete"
    /\ ofHandle' = "closed"
    /\ exitCode' = 0
    /\ pc' = "exited"
    /\ UNCHANGED <<texFile, tex, x, y, img, writes, px, msg, arg, res, debugIntersect, wk>>

Next ==
    \/ OpenFail
    \/ OpenOk
    \/ DecodeFail
    \/ DecodeOk
    \/ RenderPixel
    \/ CreateFail
    \/ CreateOk
    \/ EncodeFail
    \/ EncodeOk

Spec == Init /\ [][Next]_vars

\* The control state of main, and its steps: every step of Next is a step of
\* Advance that changes Control, and Advance is enabled exactly where Next is.
Control == <<pc, x, y>>

Advance ==
    \/ /\ pc \in {"open", "decode", "create", "encode"}
       /\ pc' \in {"decode", "render", "create", "encode", "exited"} \ {pc}
       /\ x' = x
       /\ y' = y
    \/ /\ pc = "render"
       /\ x' = LoopNext[1]
       /\ y' = LoopNext[2]
       /\ pc' = LoopNext[3]

\* main is sequential code: it takes its next step whenever it has one
FairSpec == Spec /\ WF_Control(Advance)

-----------------------------------------------------------------------------
(* Sphere.Intersect applied to rays and spheres drawn from a small grid *)

\* the bound of the grid the test rays start on
GridMax == 6

TestSpheres ==
    { Sphere(o, r, m) : o \in {<<0, 0, 0>>, <<1, 0, 0>>},
                        r \in {3, 5},
                        m \in {Identity, RotateYMinusHalf} }

TestDirections ==
    { <<0, 0, Q>>, <<0, 0, -Q>>, <<Q, 0, 0>>, <<-Q, 0, 0>>,
      Normalize(<<Q, 0, Q>>, Q), Normalize(<<-Q, 0, 2 * Q>>, Q) }

TestRays ==
    { Ray(<<ox, 0, oz>>, d) : ox \in { v \in (-GridMax)..GridMax : v % 3 = 0 },
                              oz \in { v \in (-GridMax)..GridMax : v % 2 = 0 },
                              d \in TestDirections }

InitIntersect ==
    /\ pc = "call"
    /\ \E s \in TestSpheres, r \in TestRays : arg = <<s, r>>
    /\ res = <<>>
    /\ texFile = "unopened"
    /\ tex = <<>>
    /\ x = XMin
    /\ y = YMin
    /\ img = NewRGBA
    /\ writes = [p \in Pixels |-> 0]
    /\ px = NoPixel
    /\ outFile = "absent"
    /\ ofHandle = "none"
    /\ exitCode = -1
    /\ debugIntersect = FALSE
    /\ wk = <<>>
    /\ msg = "none"

CallIntersect ==
    /\ pc = "call"
    /\ res' = <<Intersect(arg[1], arg[2])>>
    /\ pc' = "returned"
    /\ UNCHANGED <<texFile, tex, x, y, img, writes, px, outFile, ofHandle,
                   exitCode, msg, arg,
                   debugIntersect, wk>>

SpecIntersect == InitIntersect /\ [][CallIntersect]_vars

-----------------------------------------------------------------------------
(* Claims *)

\* the pixels the loop has written so far
Written == { p \in Pixels : writes[p] > 0 }

Black == <<0, 0, 0, 255>>

\* C1: every pixel whose camera ray does not intersect the outer sphere is
\* written to the image as opaque black (0, 0, 0, 255), and its shading runs
\* no inner-sphere test, no integration and no texture sample.
C1_SkyPixelOpaqueBlack ==
    /\ \A p \in Written :
           Intersect(so, CameraRay(p[1], p[2])) = NoHit => img[p] = Black
    /\ (px.path # "none" /\ px.ho = NoHit) =>
           /\ px.packed = Black
           /\ px.ri = <<>>
           /\ px.hi = <<>>
           /\ px.ho2 = <<>>
           /\ px.integ = <<>>
           /\ px.texSamples = <<>>

C1_Witness ==
    /\ px.path = "sky"
    /\ <<px.i, px.j>> \in Written
    /\ Intersect(so, CameraRay(px.i, px.j)) = NoHit
    /\ img[<<px.i, px.j>>] = Black

\* the roots of the quadratic t*t + 2*b*t + c of Sphere.Intersect, when its
\* discriminant is positive
QuadraticRoots(s, r) ==
    LET b == IntersectB(s, r)
        c == IntersectC(s, r)
        d == b * b - c
    IN  IF d > 0 THEN {(-b) - Sqrt(d), (-b) + Sqrt(d)} ELSE {}

Smallest(S) == CHOOSE t \in S : \A u \in S : t <= u

\* C2: Sphere.Intersect returns NoHit when the discriminant is not positive;
\* otherwise it returns the smallest root that is greater than the epsilon
\* 1e-5 (the near root t1 if it is, else the far root t2 if it is), and NoHit
\* when neither root is.  Every hit it returns has T greater than the epsilon.
C2_SmallestRootAboveEpsilon ==
    res # <<>> =>
        LET s == arg[1]
            r == arg[2]
            valid == { t \in QuadraticRoots(s, r) : t > Eps }
        IN  /\ valid = {} => res[1] = NoHit
            /\ valid # {} => res[1] = [Shape |-> <<s>>, T |-> Smallest(valid)]
            /\ res[1] # NoHit => res[1].T > Eps /\ res[1].T \in QuadraticRoots(s, r)

\* a call that returned the far root because the near root was not above the
\* epsilon (the ray starts inside the sphere)
C2_Witness ==
    /\ res # <<>>
    /\ res[1] # NoHit
    /\ Cardinality(QuadraticRoots(arg[1], arg[2])) = 2
    /\ \E t \in QuadraticRoots(arg[1], arg[2]) : t <= Eps
    /\ res[1].T > Eps

Before(i, j) == { p \in Pixels : p[2] < j \/ (p[2] = j /\ p[1] < i) }

\* the three shading paths of a shaded pixel
PathNoOuterHit == px.ho = NoHit
PathPlanetHit == px.ho # NoHit /\ px.hi # <<>> /\ px.hi[1] # NoHit
PathNoPlanetHit == px.ho # NoHit /\ px.hi # <<>> /\ px.hi[1] = NoHit

C4_OnePassInOrder ==
    /\ \A p \in Pixels : writes[p] <= 1
    /\ pc = "render" => Written = Before(x, y)
    /\ pc \in {"create", "encode"} => Written = Pixels
    /\ outFile \in {"empty", "partial", "complete"} => Written = Pixels
    /\ px.path # "none" =>
           /\ Cardinality({ k \in 1..3 : \/ k = 1 /\ PathNoOuterHit
                                         \/ k = 2 /\ PathPlanetHit
                                         \/ k = 3 /\ PathNoPlanetHit }) = 1
           /\ img[<<px.i, px.j>>] = px.packed
           /\ writes[<<px.i, px.j>>] = 1

\* C4: the render loop visits every pixel exactly once, in row-major order;
\* each pixel takes exactly one of the three shading paths and is written to
\* the image exactly once; the loop terminates after all pixels, and encoding
\* starts only after the last pixel has been written.
C4_RenderLoopTotal ==
    /\ []C4_OnePassInOrder
    /\ (pc = "render") ~> (pc = "create" /\ Written = Pixels)

C4_Witness ==
    /\ pc = "encode"
    /\ \A p \in Pixels : writes[p] = 1

\* C5: once the outer sphere is hit, the end olE of the integration interval
\* is the planet hit distance if the inner sphere is hit (the outer sphere is
\* then not re-tested), else the outer-sphere hit distance of the continuation
\* ray if that is hit, else 0; olE is never negative and is either 0 or
\* greater than the epsilon.
C5_OpticalEndSelection ==
    (px.path # "none" /\ px.ho # NoHit) =>
        LET ri == px.ri[1]
            hi == Intersect(si, ri)
            ho2 == Intersect(so, ri)
        IN  /\ px.hi = <<hi>>
            /\ hi # NoHit => px.olE = hi.T /\ px.ho2 = <<>>
            /\ hi = NoHit => px.ho2 = <<ho2>>
            /\ (hi = NoHit /\ ho2 # NoHit) => px.olE = ho2.T
            /\ (hi = NoHit /\ ho2 = NoHit) => px.olE = 0
            /\ px.olE >= 0
            /\ px.olE = 0 \/ px.olE > Eps
            /\ px.integ[1].a = 0 /\ px.integ[1].b = px.olE

\* a planet pixel whose continuation ray would also have hit the outer sphere,
\* at another distance
C5_Witness ==
    /\ PathPlanetHit
    /\ Intersect(so, px.ri[1]) # NoHit
    /\ Intersect(so, px.ri[1]).T # px.hi[1].T
    /\ px.olE = px.hi[1].T

\* C6: when the camera ray hits the outer sphere but the continuation ray hits
\* neither sphere, olE is 0, the in-scatter integration still runs with 50
\* samples over the empty interval [0, 0] and returns the zero vector, and the
\* pixel is written as opaque black.
C6_GrazePixelBlack ==
    (px.hi = <<NoHit>> /\ px.ho2 = <<NoHit>>) =>
        /\ px.ho # NoHit
        /\ px.olE = 0
        /\ px.integ[1].a = 0
        /\ px.integ[1].b = 0
        /\ px.integ[1].n = 50
        /\ px.integ[1].calls = 50
        /\ px.integ[1].value = <<0, 0, 0>>
        /\ px.packed = Black
        /\ img[<<px.i, px.j>>] = Black

\* a graze pixel whose samples are not all zero: the integral is zero because
\* the interval is empty
C6_Witness ==
    /\ px.hi = <<NoHit>>
    /\ px.ho2 = <<NoHit>>
    /\ px.integ[1].area # <<0, 0, 0>>
    /\ px.packed = Black

-----------------------------------------------------------------------------
(* numIntegrate and numIntegrateV applied to test integrands *)

\* the largest sample count
MaxN == 5

\* the bound of the interval endpoints
IntervalMax == 24

Endpoints == { v \in (-IntervalMax)..IntervalMax : v % 4 = 0 } \cup {-5, 7}

InitIntegrate ==
    /\ pc = "call"
    /\ \E k \in 1..4, a \in Endpoints, b \in Endpoints, n \in 2..MaxN :
           arg = [k |-> k, a |-> a, b |-> b, n |-> n]
    /\ res = <<>>
    /\ texFile = "unopened"
    /\ tex = <<>>
    /\ x = XMin
    /\ y = YMin
    /\ img = NewRGBA
    /\ writes = [p \in Pixels |-> 0]
    /\ px = NoPixel
    /\ outFile = "absent"
    /\ ofHandle = "none"
    /\ exitCode = -1
    /\ debugIntersect = FALSE
    /\ wk = <<>>
    /\ msg = "none"

CallIntegrate ==
    /\ pc = "call"
    /\ res' = <<[s |-> numIntegrate([name |-> "TestFn", k |-> arg.k],
                                    arg.a, arg.b, arg.n),
                 v |-> numIntegrateV([name |-> "TestFnV", k |-> arg.k],
                                     arg.a, arg.b, arg.n)]>>
    /\ pc' = "returned"
    /\ UNCHANGED <<texFile, tex, x, y, img, writes, px, outFile, ofHandle,
                   exitCode, msg, arg,
                   debugIntersect, wk>>

SpecIntegrate == InitIntegrate /\ [][CallIntegrate]_vars

\* the sum over i = 0 .. m-1 of f(x_i) + f(x_(i+1)), with x_i = a + i * dx
RECURSIVE TrapezoidSum(_, _, _, _)
TrapezoidSum(k, a, dx, m) ==
    IF m = 0 THEN 0
    ELSE TrapezoidSum(k, a, dx, m - 1)
         + TestFn(k, a + (m - 1) * dx, dx) + TestFn(k, a + m * dx, dx)

\* the sum over i = 0 .. m-1 of x_i + x_(i+1)
RECURSIVE AbscissaSum(_, _, _)
AbscissaSum(a, dx, m) ==
    IF m = 0 THEN 0
    ELSE AbscissaSum(a, dx, m - 1) + (a + (m - 1) * dx) + (a + m * dx)

\* C7: for every integrand f, interval [a, b] and n >= 2, numIntegrate
\* evaluates f exactly n times, at x_i = a + i * dx for i = 0 .. n-1 with
\* dx = (b - a) / (n - 1) (first sample at a, last sample at b), passes dx as
\* the second argument of every evaluation, and returns
\* (dx / 2) * sum over i = 0 .. n-2 of (f(x_i) + f(x_(i+1))); numIntegrateV
\* does the same componentwise.  The quotient (b - a) / (n - 1) is rounded as
\* every operation is; the last sample is at b when the quotient is exact.
C7_TrapezoidRule ==
    res # <<>> =>
        LET a == arg.a
            b == arg.b
            n == arg.n
            dx == RDiv(b - a, n - 1)
            expected == [i \in 1..n |-> <<a + (i - 1) * dx, dx>>]
            sum == TrapezoidSum(arg.k, a, dx, n - 1)
        IN  /\ Len(res[1].s.calls) = n
            /\ res[1].s.calls = expected
            /\ res[1].s.calls[1][1] = a
            /\ (b - a) % (n - 1) = 0 => res[1].s.calls[n][1] = b
            /\ res[1].s.value = RDiv(dx * sum, 2)
            /\ res[1].v.calls = expected
            /\ res[1].v.value = <<RDiv(dx * sum, 2),
                                  RDiv(dx * AbscissaSum(a, dx, n - 1), 2),
                                  RDiv(dx * 2 * (n - 1) * dx, 2)>>

\* an integration with more than two samples whose last sample falls on b
C7_Witness ==
    /\ res # <<>>
    /\ arg.n > 2
    /\ arg.a # arg.b
    /\ arg.k = 4
    /\ res[1].s.calls[arg.n][1] = arg.b
    /\ res[1].s.value # 0

-----------------------------------------------------------------------------
(* Color.Pack applied to test colours *)

\* channel values below 0, in [0, 1] and above 1
TestChannels == {-Q, -1, 0, 1, 27, Q \div 3, Q \div 2, Q - 1, Q, Q + 1, 3 * Q}

InitPack ==
    /\ pc = "call"
    /\ \E r \in TestChannels, g \in TestChannels, a \in {0, Q - 1, Q} :
           arg = Color(r, g, r + g, a)
    /\ res = <<>>
    /\ texFile = "unopened"
    /\ tex = <<>>
    /\ x = XMin
    /\ y = YMin
    /\ img = NewRGBA
    /\ writes = [p \in Pixels |-> 0]
    /\ px = NoPixel
    /\ outFile = "absent"
    /\ ofHandle = "none"
    /\ exitCode = -1
    /\ debugIntersect = FALSE
    /\ wk = <<>>
    /\ msg = "none"

CallPack ==
    /\ pc = "call"
    /\ res' = <<Pack(arg)>>
    /\ pc' = "returned"
    /\ UNCHANGED <<texFile, tex, x, y, img, writes, px, outFile, ofHandle,
                   exitCode, msg, arg,
                   debugIntersect, wk>>

SpecPack == InitPack /\ [][CallPack]_vars

Channels(c) == <<c.R, c.G, c.B, c.A>>

\* C8 (as stated): Color.Pack clamps each channel to [0, 1], scales it to
\* [0, 255] and rounds it to an 8-bit integer: the packed value of a channel c
\* is round(255 * clamp(c, 0, 1)).
C8_PackRounds ==
    res # <<>> =>
        \A k \in 1..4 :
            res[1][k] = RDiv(255 * clamp(Channels(arg)[k], 0, Q), Q)

\* C8 (amended): Color.Pack clamps each channel to [0, 1], scales it to
\* [0, 255] and truncates it to an 8-bit integer: the packed value of a channel
\* c is floor(255 * clamp(c, 0, 1)); it always lies in 0..255, and values below
\* 0 or above 1 saturate to 0 and 255.
C8_PackTruncates ==
    res # <<>> =>
        \A k \in 1..4 :
            LET c == Channels(arg)[k]
            IN  /\ res[1][k] = (255 * clamp(c, 0, Q)) \div Q
                /\ res[1][k] \in 0..255
                /\ c < 0 => res[1][k] = 0
                /\ c > Q => res[1][k] = 255

\* a packed channel whose value is the truncation and not the rounding
C8_Witness ==
    /\ res # <<>>
    /\ \E k \in 1..4 :
           LET c == Channels(arg)[k]
           IN  /\ c > 0 /\ c < Q
               /\ res[1][k] = (255 * c) \div Q
               /\ res[1][k] # RDiv(255 * c, Q)

-----------------------------------------------------------------------------
(* Claims about the files *)

TextureError == "err reading 'earth.png'"

\* C9: if the texture cannot be opened or decoded, the program reports the
\* error and exits with status 1 before any pixel is computed and before any
\* output file is created, and the texture file, once opened, has been closed.
C9_TextureFailureExitsEarly ==
    /\ msg = TextureError =>
           /\ pc = "exited"
           /\ exitCode = 1
           /\ Written = {}
           /\ px = NoPixel
           /\ img = NewRGBA
           /\ outFile \in {"absent", "old"}
           /\ ofHandle = "none"
           /\ texFile \in {"unopened", "closed"}
    /\ exitCode = 1 => msg = TextureError
    /\ (pc = "exited" /\ tex = <<>>) => msg = TextureError

\* the decode failure: the texture file was opened, and is closed at the exit
C9_Witness ==
    /\ pc = "exited"
    /\ exitCode = 1
    /\ msg = TextureError
    /\ texFile = "closed"

\* C10 (as stated): if the output file cannot be created or the image cannot
\* be encoded, the error is reported, any output handle that was opened is
\* closed, and no partial out.png is left behind: the output file is either
\* complete or not produced at all.
C10_NoPartialOutput ==
    pc = "exited" =>
        /\ ofHandle \in {"none", "closed"}
        /\ outFile \in {"absent", "old", "complete"}
        /\ (outFile = "complete") = (msg = "none")

-----------------------------------------------------------------------------
(* The body of the pixel loop run by several workers, each on pixels of    *)
(* its own, one statement at a time.  A worker keeps the locations of      *)
(* shared state (package variables, variables of main outside the loop     *)
(* body, pixels of img) that the body has read and written for its current *)
(* pixel.  A location is a triple: a name and, for a pixel of img, its     *)
(* coordinates.                                                            *)

\* the number of workers
NumWorkers == 2

Workers == 1..NumWorkers

\* the pixels of worker w, in the order it shades them: the first worker has
\* the centre of the image, which line 453 singles out
Work(w) ==
    IF w = 1 THEN <<<<ImageWidth \div 2, ImageHeight \div 2>>, <<XMin, YMin>>>>
    ELSE <<<<XMin + w, YMin>>, <<XMin + w, YMin + 1>>>>

WorkPixels == UNION { { Work(w)[k] : k \in 1..Len(Work(w)) } : w \in Workers }

Loc(name) == <<name, 0, 0>>

ImgLoc(i, j) == <<"img", i, j>>

\* what every pixel reads on its way through the body
SceneLocs ==
    { Loc("so"), Loc("si"), Loc("NoHit"), Loc("SunlightDir"),
      Loc("SunlightIntensity"), Loc("RayleighExtinction"),
      Loc("RayleighDensityScale"), Loc("tex") }

\* x == 320 && (y == 400 || y == 80 || y == 240)
DebugPixel(i, j) == i = 320 /\ j \in {400, 80, 240}

\* the samples of the view segment of the shaded pixel p at which inScatterFn
\* takes the branch in the planet's shadow, where it tests debugIntersect
ShadowSamples(p) ==
    IF p.ri = <<>> THEN {}
    ELSE { k \in 0..(InScatterSamples - 1) :
             inScatterBranch(p.ri[1], k * StepSize(0, p.olE, InScatterSamples))
                 = "shadow" }

InitWorkers ==
    /\ pc = "workers"
    /\ texFile = "closed"
    /\ \E t \in Textures : tex = <<t>>
    /\ x = XMin
    /\ y = YMin
    /\ img = [p \in WorkPixels |-> <<0, 0, 0, 0>>]
    /\ writes = [p \in WorkPixels |-> 0]
    /\ px = NoPixel
    /\ outFile = "absent"
    /\ ofHandle = "none"
    /\ exitCode = -1
    /\ msg = "none"
    /\ arg = <<>>
    /\ res = <<>>
    /\ debugIntersect = FALSE
    /\ wk = [w \in Workers |->
                [pc |-> "loop", todo |-> Work(w), x |-> -1, y |-> -1,
                 c |-> <<0, 0, 0, 0>>, reads |-> {}, writes |-> {}, printed |-> 0]]

\* the loop heads: the next pixel of the worker, or the end of its work
WorkerLoop(w) ==
    /\ wk[w].pc = "loop"
    /\ IF wk[w].todo = <<>>
       THEN wk' = [wk EXCEPT ![w].pc = "done"]
       ELSE wk' = [wk EXCEPT ![w].pc = "debugSet",
                             ![w].x = Head(wk[w].todo)[1],
                             ![w].y = Head(wk[w].todo)[2],
                             ![w].todo = Tail(wk[w].todo),
                             ![w].reads = {},
                             ![w].writes = {}]
    /\ UNCHANGED <<pc, texFile, tex, x, y, img, writes, px, outFile, ofHandle,
                   exitCode, msg, arg, res, debugIntersect>>

\* debugIntersect = x == 320 && (y == 400 || y == 80 || y == 240)
WorkerDebugSet(w) ==
    /\ wk[w].pc = "debugSet"
    /\ debugIntersect' = DebugPixel(wk[w].x, wk[w].y)
    /\ wk' = [wk EXCEPT ![w].pc = "debugClear",
                        ![w].writes = @ \cup {Loc("debugIntersect")}]
    /\ UNCHANGED <<pc, texFile, tex, x, y, img, writes, px, outFile, ofHandle,
                   exitCode, msg, arg, res>>

\* debugIntersect = false
WorkerDebugClear(w) ==
    /\ wk[w].pc = "debugClear"
    /\ debugIntersect' = FALSE
    /\ wk' = [wk EXCEPT ![w].pc = "debugTest",
                        ![w].writes = @ \cup {Loc("debugIntersect")}]
    /\ UNCHANGED <<pc, texFile, tex, x, y, img, writes, px, outFile, ofHandle,
                   exitCode, msg, arg, res>>

\* if debugIntersect { fmt.Printf("y %v\n", y) }
WorkerDebugTest(w) ==
    /\ wk[w].pc = "debugTest"
    /\ wk' = [wk EXCEPT ![w].pc = "shade",
                        ![w].reads = @ \cup {Loc("debugIntersect")},
                        ![w].printed = @ + (IF debugIntersect THEN 1 ELSE 0)]
    /\ UNCHANGED <<pc, texFile, tex, x, y, img, writes, px, outFile, ofHandle,
                   exitCode, msg, arg, res, debugIntersect>>

\* the worker after the body has shaded its pixel as p, with n samples in the
\* planet's shadow
WorkerShaded(w, p, n) ==
    [wk EXCEPT ![w].pc = "set",
               ![w].c = p.packed,
               ![w].reads = @ \cup SceneLocs
                              \cup (IF n > 0 THEN {Loc("debugIntersect")} ELSE {}),
               ![w].printed = @ + (IF debugIntersect THEN n ELSE 0)]

\* from ho := so.Intersect(r) to c.Pack()
WorkerShade(w) ==
    /\ wk[w].pc = "shade"
    /\ px' = ShadePixel(wk[w].x, wk[w].y, tex[1])
    /\ wk' = WorkerShaded(w, px', Cardinality(ShadowSamples(px')))
    /\ UNCHANGED <<pc, texFile, tex, x, y, img, writes, outFile, ofHandle,
                   exitCode, msg, arg, res, debugIntersect>>

\* img.Set(x, y, c.Pack())
WorkerSet(w) ==
    /\ wk[w].pc = "set"
    /\ img' = [img EXCEPT ![<<wk[w].x, wk[w].y>>] = wk[w].c]
    /\ writes' = [writes EXCEPT ![<<wk[w].x, wk[w].y>>] = @ + 1]
    /\ wk' = [wk EXCEPT ![w].pc = "loop",
                        ![w].writes = @ \cup {ImgLoc(wk[w].x, wk[w].y)}]
    /\ UNCHANGED <<pc, texFile, tex, x, y, px, outFile, ofHandle,
                   exitCode, msg, arg, res, debugIntersect>>

NextWorkers ==
    \E w \in Workers :
        \/ WorkerLoop(w)
        \/ WorkerDebugSet(w)
        \/ WorkerDebugClear(w)
        \/ WorkerDebugTest(w)
        \/ WorkerShade(w)
        \/ WorkerSet(w)

SpecWorkers == InitWorkers /\ [][NextWorkers]_vars

\* the locations some worker has written for its current pixel
WrittenLocs == UNION { wk[w].writes : w \in DOMAIN wk }

\* C11 (as stated): the computation of a pixel reads only state that nothing
\* writes during the render and writes only its own output pixel, so that the
\* computations of two pixels have no write-write and no read-write conflict
\* on shared state, in whatever order their statements interleave, and the
\* final image is the one the sequential loop produces.
C11_PixelsIndependent ==
    /\ \A w \in DOMAIN wk :
           /\ wk[w].reads \cap WrittenLocs = {}
           /\ wk[w].writes \subseteq {ImgLoc(wk[w].x, wk[w].y)}
    /\ \A v, w \in DOMAIN wk :
           v # w => wk[v].writes \cap (wk[w].reads \cup wk[w].writes) = {}
    /\ (wk # <<>> /\ \A w \in DOMAIN wk : wk[w].pc = "done") =>
           \A p \in WorkPixels : img[p] = ShadePixel(p[1], p[2], tex[1]).packed

-----------------------------------------------------------------------------
(* The attenuation of sunlight, math.Exp(-RayleighExtinction.k *           *)
(* sunOptLength) for the three channels, applied to optical lengths drawn  *)
(* from a bounded set.  An optical length is a length times a density, a   *)
(* count of 1/Q km.                                                        *)

\* an optical length from which on the attenuation factors of two channels
\* differ by at least a grid step 1/Q (71 m; in float64 they differ from
\* 1.5e-11 m on)
OptLenMin == 500

\* the number of optical lengths drawn above OptLenMin and below it
OptLenCount == 100

\* from one grid step to OptLenMin * OptLenCount^2 (714 km)
OpticalLengths ==
    { k : k \in 1..OptLenCount } \cup { OptLenMin * k * k : k \in 1..OptLenCount }

InitAttenuation ==
    /\ pc = "call"
    /\ \E len \in OpticalLengths : arg = <<len>>
    /\ res = <<>>
    /\ texFile = "unopened"
    /\ tex = <<>>
    /\ x = XMin
    /\ y = YMin
    /\ img = NewRGBA
    /\ writes = [p \in Pixels |-> 0]
    /\ px = NoPixel
    /\ outFile = "absent"
    /\ ofHandle = "none"
    /\ exitCode = -1
    /\ debugIntersect = FALSE
    /\ wk = <<>>
    /\ msg = "none"

CallAttenuation ==
    /\ pc = "call"
    /\ res' = <<[R |-> Attenuation(RayleighExtinction.R, arg[1]),
                 G |-> Attenuation(RayleighExtinction.G, arg[1]),
                 B |-> Attenuation(RayleighExtinction.B, arg[1])]>>
    /\ pc' = "returned"
    /\ UNCHANGED <<texFile, tex, x, y, img, writes, px, outFile, ofHandle,
                   exitCode, msg, arg, debugIntersect, wk>>

SpecAttenuation == InitAttenuation /\ [][CallAttenuation]_vars

\* C12: the Rayleigh extinction coefficients satisfy Blue > Green > Red > 0,
\* and for every optical length L > 0 the attenuation factors
\* exp(-coefficient * L) are ordered Blue < Green < Red: never in another
\* order, and strictly wherever the number grid resolves them (L at least
\* OptLenMin).  All factors lie in [0, 1].
C12_BlueExtinguishedMost ==
    /\ RayleighExtinction.B > RayleighExtinction.G
    /\ RayleighExtinction.G > RayleighExtinction.R
    /\ RayleighExtinction.R > 0
    /\ res # <<>> =>
           /\ arg[1] > 0
           /\ res[1].B <= res[1].G
           /\ res[1].G <= res[1].R
           /\ res[1].B >= 0
           /\ res[1].R <= Q
           /\ arg[1] >= OptLenMin => res[1].B < res[1].G /\ res[1].G < res[1].R

\* an optical length that attenuates blue to less than half of red, and
\* leaves some of every channel
C12_Witness ==
    /\ res # <<>>
    /\ arg[1] >= OptLenMin
    /\ res[1].B > 0
    /\ 2 * res[1].B < res[1].R
    /\ res[1].B < res[1].G
    /\ res[1].G < res[1].R

-----------------------------------------------------------------------------
(* inScatterFn applied to the samples of the view segments of the window:  *)
(* sample k of pixel (i, j) is the call inScatterFn(k * dx, dx) that       *)
(* numIntegrateV(inScatterFn, 0, olE, 50) makes for that pixel.            *)

\* the call of sample k of the pixel with camera ray r and continuation ray ri
SampleCall(r, ri, dx, k) == [r |-> r, ri |-> ri, t |-> k * dx, dx |-> dx, k |-> k]

SampleOnSegment(r, ri, k) ==
    SampleCall(r, ri,
               StepSize(0, OpticalEnd(Intersect(si, ri), Intersect(so, ri)),
                        InScatterSamples),
               k)

SampleOfRay(r, ho, k) == SampleOnSegment(r, ContinuationRay(r, ho), k)

SampleOfPixel(i, j, k) == SampleOfRay(CameraRay(i, j), Intersect(so, CameraRay(i, j)), k)

\* the pixels whose camera ray hits the outer sphere
ShadedPixels == { p \in Pixels : Intersect(so, CameraRay(p[1], p[2])) # NoHit }

InitInScatter ==
    /\ pc = "call"
    /\ \E p \in ShadedPixels, k \in 0..(InScatterSamples - 1) :
           arg = SampleOfPixel(p[1], p[2], k)
    /\ res = <<>>
    /\ texFile = "unopened"
    /\ tex = <<>>
    /\ x = XMin
    /\ y = YMin
    /\ img = NewRGBA
    /\ writes = [p \in Pixels |-> 0]
    /\ px = NoPixel
    /\ outFile = "absent"
    /\ ofHandle = "none"
    /\ exitCode = -1
    /\ debugIntersect = FALSE
    /\ wk = <<>>
    /\ msg = "none"

CallInScatter ==
    /\ pc = "call"
    /\ res' = <<inScatterAt(arg.r, SunRay(arg.ri, arg.t), arg.dx)>>
    /\ pc' = "returned"
    /\ UNCHANGED <<texFile, tex, x, y, img, writes, px, outFile, ofHandle,
                   exitCode, msg, arg, debugIntersect, wk>>

SpecInScatter == InitInScatter /\ [][CallInScatter]_vars

\* C13 (as stated): for every sample point on the view segment that is not in
\* the planet's shadow, the ray from the point toward the sun hits the outer
\* sphere: the branch of inScatterFn for a sunward miss is never reached, and
\* every unshadowed sample gets a sunward optical length and a contribution.
C13_SunwardRayHitsOuterSphere ==
    (res # <<>> /\ res[1].rshdHit = NoHit) =>
        /\ res[1].rsHit # <<NoHit>>
        /\ res[1].sunOptLength # <<>>

-----------------------------------------------------------------------------
(* sampleTexture applied to coordinates drawn from a small set *)

\* coordinates below 0, in [0, 1) and at and above 1
TestCoords == {-Q, -1, 0, 1, Q \div 3, Q \div 2, Q - 1, Q, Q + 1, 2 * Q}

InitSample ==
    /\ pc = "call"
    /\ \E t \in Textures, u \in TestCoords, v \in TestCoords :
           arg = [tex |-> t, u |-> u, v |-> v]
    /\ res = <<>>
    /\ texFile = "unopened"
    /\ tex = <<>>
    /\ x = XMin
    /\ y = YMin
    /\ img = NewRGBA
    /\ writes = [p \in Pixels |-> 0]
    /\ px = NoPixel
    /\ outFile = "absent"
    /\ ofHandle = "none"
    /\ exitCode = -1
    /\ debugIntersect = FALSE
    /\ wk = <<>>
    /\ msg = "none"

\* the call returns the colour; x and y are the indices it passed to img.At
CallSample ==
    /\ pc = "call"
    /\ res' = <<[x |-> TexelX(arg.u), y |-> TexelY(arg.v),
                 c |-> sampleTexture(arg.tex, arg.u, arg.v)]>>
    /\ pc' = "returned"
    /\ UNCHANGED <<texFile, tex, x, y, img, writes, px, outFile, ofHandle,
                   exitCode, msg, arg, debugIntersect, wk>>

SpecSample == InitSample /\ [][CallSample]_vars

\* C14 (as stated): for every pair (u, v), including values outside [0, 1]
\* and the boundary values u = 1 and v = 1, sampleTexture clamps u and v to
\* [0, 1] before scaling and reads a texel whose indices lie inside the
\* texture: 0 <= x < width and 0 <= y < height.
C14_TexelInsideTexture ==
    res # <<>> =>
        /\ res[1].x = (clamp(arg.u, 0, Q) * TexSize) \div Q
        /\ res[1].y = (clamp(arg.v, 0, Q) * TexSize) \div Q
        /\ res[1].x >= 0 /\ res[1].x < TexSize
        /\ res[1].y >= 0 /\ res[1].y < TexSize
        /\ res[1].c = NewColorFromRGBA(arg.tex[<<res[1].x, res[1].y>>][1],
                                       arg.tex[<<res[1].x, res[1].y>>][2],
                                       arg.tex[<<res[1].x, res[1].y>>][3],
                                       arg.tex[<<res[1].x, res[1].y>>][4])


\* C15: every in-scatter sample whose point is in the planet's shadow (the ray
\* from the point toward the sun hits the inner sphere) contributes the zero
\* vector to the in-scatter integral, and for that sample the outer sphere is
\* not tested and no sunward optical length is computed.
C15_ShadowedSampleIsZero ==
    (res # <<>> /\ Intersect(si, SunRay(arg.ri, arg.t)) # NoHit) =>
        /\ res[1].rshdHit = Intersect(si, SunRay(arg.ri, arg.t))
        /\ res[1].value = <<0, 0, 0>>
        /\ res[1].rsHit = <<>>
        /\ res[1].sunOptLength = <<>>
        /\ inScatterFn(arg.r, arg.ri, arg.t, arg.dx) = <<0, 0, 0>>

\* a shadowed sample, inside the view segment, whose sunward ray would have
\* hit the outer sphere behind the planet
C15_Witness ==
    /\ res # <<>>
    /\ arg.k > 0
    /\ arg.t > 0
    /\ res[1].rshdHit # NoHit
    /\ res[1].value = <<0, 0, 0>>
    /\ res[1].rsHit = <<>>
    /\ Intersect(so, SunRay(arg.ri, arg.t)) # NoHit
    /\ Intersect(so, SunRay(arg.ri, arg.t)).T > res[1].rshdHit.T

-----------------------------------------------------------------------------
(* The alpha channel of the output *)

\* every texel of the decoded texture has the 16-bit alpha 65535
OpaqueTexture == tex # <<>> /\ \A p \in Texels : tex[1][p][4] = 65535

\* C16 (as stated): given a fully opaque texture, every pixel written to the
\* output raster is fully opaque (alpha 255) whichever shading path produced
\* it: the alpha set at the start of the pixel survives the texture sample
\* (NewColorFromRGBA), MultiplyRGB, AddRGB and Pack.
C16_OutputOpaque ==
    OpaqueTexture =>
        /\ \A p \in Written : img[p][4] = 255
        /\ px.path # "none" => px.c.A = Q /\ px.packed[4] = 255

=============================================================================
